---- MODULE Spec2Model ----
(***************************************************************************)
(* Protocol identification and dispatch of glutton                         *)
(* (protocols/protocols.go): the two handler registries and the generic    *)
(* "tcp" entry, which arms a read deadline, peeks 4 bytes and dispatches   *)
(* to the HTTP, RDP or raw TCP handler.                                    *)
(*                                                                         *)
(* Bytes are integers 0..255.  A connection is modelled by the bytes the   *)
(* client has put on the wire and nobody has read yet (raw), by the bytes  *)
(* the peeking wrapper holds (buf) and by its read deadline.               *)
(***************************************************************************)
EXTENDS Integers, Sequences, FiniteSets, TLC

VARIABLES
    protocolHandlers,  \* the stream registry: key -> handler
    udpHandlers,       \* the datagram registry: key -> handler
    kind,              \* per flow: "stream", "datagram" or "off" (slot unused)
    stream,            \* per flow: the bytes the client means to send (a datagram: its payload)
    nsent,             \* per flow: how many of them are on the wire
    peer,              \* per flow: "open", "eof" (FIN seen) or "reset" (RST seen)
    raw,               \* per flow: bytes on the wire not yet read from conn
    buf,               \* per flow: bytes held by the wrapper Peek returned
    deadline,          \* per flow: read deadline of conn, "none" or "armed"
    ctx,               \* per flow: the caller's cancellation context
    md,                \* per flow: the caller's connection metadata
    entry,             \* per flow: the registry key the orchestrator invoked
    pc,                \* per flow: position of the task that owns the flow
    snip,              \* per flow: the snippet Peek returned
    err,               \* per flow: the error Peek returned
    calls,             \* per flow: the calls made on collaborators, in order
    log,               \* per flow: what was logged, in order
    got,               \* per flow: the bytes the dispatched handler has read
    ret                \* per flow: the value returned to the orchestrator

vars == <<protocolHandlers, udpHandlers, kind, stream, nsent, peer, raw, buf,
          deadline, ctx, md, entry, pc, snip, err, calls, log, got, ret>>

registry == <<protocolHandlers, udpHandlers>>
wire     == <<stream, nsent, peer, raw>>
caller   == <<kind, ctx, md>>

----------------------------------------------------------------------------
(* Bounds of the model *)

\* how many bytes a client stream may carry after its first four
MaxTail == 1

\* how many times a connection may be peeked again before it is read
MaxPeeks == 1

\* the flows (connection slots) of the model
Conns == {1, 2}

----------------------------------------------------------------------------
(* Program constants *)

PeekWidth == 4

\* an HTTP table that also holds the four bytes of the RDP header
httpMapOverlapping ==
    { <<71, 69, 84, 32>>, <<80, 79, 83, 84>>, <<72, 69, 65, 68>>,
      <<79, 80, 84, 73>>, <<67, 79, 78, 78>>, <<3, 0, 0, 43>> }

\* the keys of httpMap, as bytes: "GET ", "POST", "HEAD", "OPTI", "CONN"
httpMap ==
    { <<71, 69, 84, 32>>, <<80, 79, 83, 84>>, <<72, 69, 65, 68>>,
      <<79, 80, 84, 73>>, <<67, 79, 78, 78>> }

\* []byte{0x03, 0x00, 0x00, 0x2b}
rdpHeader == <<3, 0, 0, 43>>

\* time.Now().Add(500 * time.Millisecond) and time.Time{}
ProbeDeadline == "now+500ms"
NoDeadline    == "zero"

\* error values
Nil        == "nil"
ErrTimeout == "i/o timeout"
ErrEOF     == "EOF"
ErrReset   == "connection reset by peer"
ErrSet     == "set deadline failed"
ErrClear   == "clear deadline failed"
ErrBanner  == "banner failed"
ErrHandler == "handler failed"

\* the errors the classifier itself can meet before it dispatches
InternalErrors == {ErrTimeout, ErrEOF, ErrReset, ErrSet, ErrClear, ErrBanner}

\* what a dispatched handler may return
HandlerResults == {Nil, ErrHandler}

----------------------------------------------------------------------------
(* The registries *)

\* protocolHandlers[k] = v on a Go map
Put(m, k, v) == [x \in DOMAIN m \cup {k} |-> IF x = k THEN v ELSE m[x]]

EmptyMap == [x \in {} |-> "none"]

RECURSIVE PutAll(_, _)
PutAll(m, assigns) ==
    IF assigns = <<>> THEN m
    ELSE PutAll(Put(m, Head(assigns)[1], Head(assigns)[2]), Tail(assigns))

\* a slip in the table: the "rfb" closure stored under "rdp" again
TCPAssignmentsRebound ==
    << <<"smtp", "HandleSMTP">>, <<"rdp", "HandleRDP">>, <<"smb", "HandleSMB">>,
       <<"ftp", "HandleFTP">>, <<"sip", "HandleSIP">>, <<"rdp", "HandleRFB">>,
       <<"telnet", "HandleTelnet">>, <<"mqtt", "HandleMQTT">>,
       <<"bittorrent", "HandleBittorrent">>, <<"memcache", "HandleMemcache">>,
       <<"jabber", "HandleJabber">>, <<"adb", "HandleADB">>,
       <<"tcp", "classifier">> >>

\* the assignments of MapTCPProtocolHandlers, in source order; each closure is
\* named by the function of package tcp it calls, the last one is the classifier
TCPAssignments ==
    << <<"smtp", "HandleSMTP">>, <<"rdp", "HandleRDP">>, <<"smb", "HandleSMB">>,
       <<"ftp", "HandleFTP">>, <<"sip", "HandleSIP">>, <<"rfb", "HandleRFB">>,
       <<"telnet", "HandleTelnet">>, <<"mqtt", "HandleMQTT">>,
       <<"bittorrent", "HandleBittorrent">>, <<"memcache", "HandleMemcache">>,
       <<"jabber", "HandleJabber">>, <<"adb", "HandleADB">>,
       <<"tcp", "classifier">> >>

MapTCPProtocolHandlers == PutAll(EmptyMap, TCPAssignments)

UDPAssignments == << <<"udp", "HandleUDP">> >>

MapUDPProtocolHandlers == PutAll(EmptyMap, UDPAssignments)

----------------------------------------------------------------------------
(* Bytes and strings *)

Min(a, b) == IF a < b THEN a ELSE b

Take(s, n) == SubSeq(s, 1, Min(n, Len(s)))
Drop(s, n) == SubSeq(s, Min(n, Len(s)) + 1, Len(s))

IsPrefix(p, s) == Len(p) <= Len(s) /\ SubSeq(s, 1, Len(p)) = p

\* unicode.ToUpper on an ASCII byte
UpperByte(b) == IF b >= 97 /\ b <= 122 THEN b - 32 ELSE b

IsASCII(s) == \A i \in 1..Len(s) : s[i] < 128

\* strings.ToUpper on a non-ASCII string, rune by rune: U+017F (C5 BF) maps to
\* 'S', U+0131 (C4 B1) maps to 'I', a byte that starts no rune of the model
\* becomes U+FFFD (EF BF BD)
RECURSIVE UpperRunes(_)
UpperRunes(s) ==
    IF s = <<>> THEN <<>>
    ELSE IF Len(s) >= 2 /\ s[1] = 197 /\ s[2] = 191 THEN <<83>> \o UpperRunes(Drop(s, 2))
    ELSE IF Len(s) >= 2 /\ s[1] = 196 /\ s[2] = 177 THEN <<73>> \o UpperRunes(Drop(s, 2))
    ELSE IF s[1] >= 128 THEN <<239, 191, 189>> \o UpperRunes(Tail(s))
    ELSE <<UpperByte(s[1])>> \o UpperRunes(Tail(s))

\* the snippet compared as it came, without strings.ToUpper
ToUpperNone(s) == s

\* strings.ToUpper(string(snip))
ToUpper(s) ==
    IF IsASCII(s) THEN [i \in 1..Len(s) |-> UpperByte(s[i])] ELSE UpperRunes(s)

\* every probe error taken for a timeout
IsTimeoutAnyError(e) == e # Nil

\* errors.As(err, &netErr) && netErr.Timeout()
IsTimeout(e) == e = ErrTimeout

----------------------------------------------------------------------------
(* What the orchestrator and the clients may supply *)

\* first four bytes of a client stream: the HTTP methods in upper and mixed
\* case, the RDP header and near misses of both
Heads ==
    { <<71, 69, 84, 32>>,    \* "GET "
      <<80, 79, 83, 84>>,    \* "POST"
      <<72, 69, 65, 68>>,    \* "HEAD"
      <<79, 80, 84, 73>>,    \* "OPTI"
      <<67, 79, 78, 78>>,    \* "CONN"
      <<103, 101, 116, 32>>, \* "get "
      <<80, 111, 115, 116>>, \* "Post"
      <<104, 69, 97, 68>>,   \* "hEaD"
      <<111, 112, 116, 105>>,\* "opti"
      <<67, 111, 78, 110>>,  \* "CoNn"
      <<3, 0, 0, 43>>,       \* the RDP header
      <<3, 0, 0, 44>>,       \* differs from it in the last byte
      <<35, 0, 0, 43>>,      \* differs from it in the first byte
      <<88, 89, 90, 10>>,    \* "XYZ\n"
      <<71, 69, 84, 88>>,    \* "GETX"
      <<83, 83, 72, 45>>,    \* "SSH-"
      <<80, 79, 197, 191>> } \* "PO" and U+017F, whose upper case is 'S'

TailBytes == {47}

RECURSIVE SeqsUpTo(_, _)
SeqsUpTo(S, n) ==
    IF n = 0 THEN {<<>>}
    ELSE LET shorter == SeqsUpTo(S, n - 1)
         IN  shorter \cup {s \o <<b>> : s \in shorter, b \in S}

\* what a client may mean to send; it may stop or close after any prefix
Streams == {h \o t : h \in Heads, t \in SeqsUpTo(TailBytes, MaxTail)}

\* datagram payloads
Payloads == {<<1>>, <<71, 69, 84, 32>>}

\* what a caller passes: a cancellation context and the connection metadata
Callers ==
    { [ctx |-> "ctxA", md |-> [TargetPort |-> 21, ID |-> "flowA"]],
      [ctx |-> "ctxB", md |-> [TargetPort |-> 80, ID |-> "flowB"]] }

NoMd == [TargetPort |-> 0, ID |-> "-"]

\* one call on a collaborator; a field the call does not take holds "-", 0,
\* NoMd or <<>>
Call(fn, cx, cn, m, port, t, data) ==
    [fn |-> fn, ctx |-> cx, conn |-> cn, md |-> m, port |-> port, t |-> t,
     data |-> data]

Handlers == {"HandleHTTP", "HandleRDP", "HandleTCP"}

----------------------------------------------------------------------------
(* The client and the network *)

Sent(c) == Take(stream[c], nsent[c])

\* the client puts its next byte on the wire
ClientSend(c) ==
    /\ kind[c] = "stream"
    /\ peer[c] = "open"
    /\ nsent[c] < Len(stream[c])
    /\ nsent' = [nsent EXCEPT ![c] = @ + 1]
    /\ raw' = [raw EXCEPT ![c] = Append(@, stream[c][nsent[c] + 1])]
    /\ UNCHANGED <<registry, caller, stream, peer, buf, deadline, entry, pc,
                   snip, err, calls, log, got, ret>>

\* the client closes (FIN) or aborts (RST); what is on the wire stays readable
ClientClose(c) ==
    /\ kind[c] = "stream"
    /\ peer[c] = "open"
    /\ \E how \in {"eof", "reset"} : peer' = [peer EXCEPT ![c] = how]
    /\ UNCHANGED <<registry, caller, stream, nsent, raw, buf, deadline, entry,
                   pc, snip, err, calls, log, got, ret>>

\* the error a read of conn meets once the wire is drained and the peer is gone
ReadError(c) == IF peer[c] = "eof" THEN ErrEOF ELSE ErrReset

----------------------------------------------------------------------------
(* The named registry entries *)

\* protocolHandlers[key](ctx, conn, md) for a key other than "tcp": the closure
\* calls its function of package tcp with the caller's ctx, conn and md;
\* udpHandlers["udp"](ctx, srcAddr, dstAddr, data, md) calls udp.HandleUDP
NamedCall(c, key) ==
    Call(protocolHandlers[key], ctx[c], "conn", md[c], 0, "-", <<>>)

InvokeNamed(c, key) ==
    /\ kind[c] = "stream"
    /\ pc[c] = "accepted"
    /\ key \in DOMAIN protocolHandlers
    /\ protocolHandlers[key] # "classifier"
    /\ entry' = [entry EXCEPT ![c] = key]
    /\ calls' = [calls EXCEPT ![c] = Append(@, NamedCall(c, key))]
    /\ pc' = [pc EXCEPT ![c] = "handler"]
    /\ UNCHANGED <<registry, caller, wire, buf, deadline, snip, err, log, got, ret>>

DatagramCall(c, key) ==
    Call(udpHandlers[key], ctx[c], "-", md[c], 0, "-", stream[c])

InvokeDatagram(c, key) ==
    /\ kind[c] = "datagram"
    /\ pc[c] = "accepted"
    /\ key \in DOMAIN udpHandlers
    /\ entry' = [entry EXCEPT ![c] = key]
    /\ calls' = [calls EXCEPT ![c] = Append(@, DatagramCall(c, key))]
    /\ pc' = [pc EXCEPT ![c] = "handler"]
    /\ UNCHANGED <<registry, caller, wire, buf, deadline, snip, err, log, got, ret>>

----------------------------------------------------------------------------
(* The classifier, protocolHandlers["tcp"] *)

\* one deadline shared by every connection instead of one per connection
SetReadDeadlineShared(c, t, ok) ==
    IF ok THEN [d \in Conns |-> IF t = NoDeadline THEN "none" ELSE "armed"]
    ELSE deadline

\* conn.SetReadDeadline(t): ok arms or clears the deadline, a failure leaves it
SetReadDeadline(c, t, ok) ==
    IF ok THEN [deadline EXCEPT ![c] = IF t = NoDeadline THEN "none" ELSE "armed"]
    ELSE deadline

DeadlineCall(t) == Call("SetReadDeadline", "-", "conn", NoMd, 0, t, <<>>)

\* the probe deadline set to time.Time{}, which arms nothing
ArmDeadlineZero(c) ==
    /\ kind[c] = "stream"
    /\ pc[c] = "accepted"
    /\ "tcp" \in DOMAIN protocolHandlers
    /\ protocolHandlers["tcp"] = "classifier"
    /\ entry' = [entry EXCEPT ![c] = "tcp"]
    /\ \E ok \in BOOLEAN :
          /\ deadline' = SetReadDeadline(c, NoDeadline, ok)
          /\ log' = [log EXCEPT ![c] =
                        IF ok THEN @ ELSE Append(@, <<"Error", "failed to set read deadline", ErrSet>>)]
    /\ calls' = [calls EXCEPT ![c] = Append(@, DeadlineCall(NoDeadline))]
    /\ pc' = [pc EXCEPT ![c] = "peek"]
    /\ UNCHANGED <<registry, caller, wire, buf, snip, err, got, ret>>

\* the entry of the classifier: arm the probe deadline, log a failure and go on
ArmDeadline(c) ==
    /\ kind[c] = "stream"
    /\ pc[c] = "accepted"
    /\ "tcp" \in DOMAIN protocolHandlers
    /\ protocolHandlers["tcp"] = "classifier"
    /\ entry' = [entry EXCEPT ![c] = "tcp"]
    /\ \E ok \in BOOLEAN :
          /\ deadline' = SetReadDeadline(c, ProbeDeadline, ok)
          /\ log' = [log EXCEPT ![c] =
                        IF ok THEN @ ELSE Append(@, <<"Error", "failed to set read deadline", ErrSet>>)]
    /\ calls' = [calls EXCEPT ![c] = Append(@, DeadlineCall(ProbeDeadline))]
    /\ pc' = [pc EXCEPT ![c] = "peek"]
    /\ UNCHANGED <<registry, caller, wire, buf, snip, err, got, ret>>

\* Peek(conn, 4), blocked in its read of conn: it takes what is on the wire, up
\* to the width, into the wrapper; with the width reached it returns the snippet
PeekRead(c) ==
    /\ pc[c] = "peek"
    /\ raw[c] # <<>>
    /\ Len(buf[c]) < PeekWidth
    /\ LET n    == Min(Len(raw[c]), PeekWidth - Len(buf[c]))
           held == buf[c] \o Take(raw[c], n)
       IN  /\ buf' = [buf EXCEPT ![c] = held]
           /\ raw' = [raw EXCEPT ![c] = Drop(@, n)]
           /\ IF Len(held) = PeekWidth
              THEN /\ snip' = [snip EXCEPT ![c] = held]
                   /\ err' = [err EXCEPT ![c] = Nil]
                   /\ pc' = [pc EXCEPT ![c] = "peeked"]
              ELSE UNCHANGED <<snip, err, pc>>
    /\ UNCHANGED <<registry, caller, stream, nsent, peer, deadline, entry,
                   calls, log, got, ret>>

\* Peek's read meets EOF or a reset: the partial snippet and that error
PeekFail(c) ==
    /\ pc[c] = "peek"
    /\ raw[c] = <<>>
    /\ peer[c] # "open"
    /\ Len(buf[c]) < PeekWidth
    /\ snip' = [snip EXCEPT ![c] = buf[c]]
    /\ err' = [err EXCEPT ![c] = ReadError(c)]
    /\ pc' = [pc EXCEPT ![c] = "peeked"]
    /\ UNCHANGED <<registry, caller, wire, buf, deadline, entry, calls, log, got, ret>>

\* the armed deadline passes while Peek is blocked: what it holds so far and a
\* timeout error
PeekTimeout(c) ==
    /\ pc[c] = "peek"
    /\ deadline[c] = "armed"
    /\ Len(buf[c]) < PeekWidth
    /\ snip' = [snip EXCEPT ![c] = buf[c]]
    /\ err' = [err EXCEPT ![c] = ErrTimeout]
    /\ pc' = [pc EXCEPT ![c] = "peeked"]
    /\ UNCHANGED <<registry, caller, wire, buf, deadline, entry, calls, log, got, ret>>

\* a second peek through a wrapper of its own, which holds nothing yet
PeekAgainFreshResult(c) ==
    LET n == Min(Len(raw[c]), PeekWidth)
    IN  [snip |-> Take(raw[c], n),
         err |-> IF n = PeekWidth THEN Nil
                 ELSE IF IsTimeout(err[c]) THEN ErrTimeout ELSE ReadError(c),
         held |-> buf[c], n |-> 0]

\* a second peek of the same width, through the wrapped connection, before any
\* consuming read: the wrapper answers from the bytes it holds; short of the
\* width it reads conn again, which fails at once when the deadline has passed
\* (Peek sets and clears no deadline) or the peer is gone
PeekAgainResult(c) ==
    LET n    == Min(Len(raw[c]), PeekWidth - Len(buf[c]))
        held == buf[c] \o Take(raw[c], n)
    IN  IF Len(buf[c]) >= PeekWidth
        THEN [snip |-> Take(buf[c], PeekWidth), err |-> Nil, held |-> buf[c], n |-> 0]
        ELSE IF IsTimeout(err[c])
        THEN [snip |-> buf[c], err |-> ErrTimeout, held |-> buf[c], n |-> 0]
        ELSE IF Len(held) >= PeekWidth
        THEN [snip |-> held, err |-> Nil, held |-> held, n |-> n]
        ELSE [snip |-> held, err |-> ReadError(c), held |-> held, n |-> n]

\* the second peek returns when it need not wait for the client
PeekAgain(c) ==
    /\ entry[c] = "tcp"
    /\ pc[c] = "peeked"
    /\ Cardinality({i \in 1..Len(calls[c]) : calls[c][i].fn = "Peek"}) < MaxPeeks
    /\ \/ Len(buf[c]) >= PeekWidth
       \/ IsTimeout(err[c])
       \/ Len(buf[c]) + Len(raw[c]) >= PeekWidth
       \/ peer[c] # "open"
    /\ LET r == PeekAgainResult(c)
       IN  /\ snip' = [snip EXCEPT ![c] = r.snip]
           /\ err' = [err EXCEPT ![c] = r.err]
           /\ buf' = [buf EXCEPT ![c] = r.held]
           /\ raw' = [raw EXCEPT ![c] = Drop(@, r.n)]
    /\ calls' = [calls EXCEPT ![c] = Append(@, Call("Peek", "-", "bufConn", NoMd, 0, "-", <<>>))]
    /\ UNCHANGED <<registry, caller, stream, nsent, peer, deadline, entry, pc,
                   log, got, ret>>

\* the banner keyed by no port
BannerCallNoPort(c) == Call("SendBanner", "-", "conn", md[c], 0, "-", <<>>)

\* tcp.SendBanner(md.TargetPort, conn, md, log, h)
BannerCall(c) == Call("SendBanner", "-", "conn", md[c], md[c].TargetPort, "-", <<>>)

\* a banner failure returned to the caller instead of logged
SendBannerFatal(c) ==
    /\ pc[c] = "peeked"
    /\ IsTimeout(err[c])
    /\ calls' = [calls EXCEPT ![c] = Append(@, BannerCall(c))]
    /\ \E ok \in BOOLEAN :
          IF ok
          THEN /\ pc' = [pc EXCEPT ![c] = "bannered"]
               /\ UNCHANGED ret
          ELSE /\ pc' = [pc EXCEPT ![c] = "done"]
               /\ ret' = [ret EXCEPT ![c] = [handler |-> "-", result |-> "-",
                                              value |-> ErrBanner]]
    /\ UNCHANGED <<registry, caller, wire, buf, deadline, entry, snip, err, log, got>>

\* the timeout branch: send the banner, log a failure and go on
SendBanner(c) ==
    /\ pc[c] = "peeked"
    /\ IsTimeout(err[c])
    /\ calls' = [calls EXCEPT ![c] = Append(@, BannerCall(c))]
    /\ \E ok \in BOOLEAN :
          log' = [log EXCEPT ![c] =
                     IF ok THEN @ ELSE Append(@, <<"Error", "Failed to send service banner", ErrBanner>>)]
    /\ pc' = [pc EXCEPT ![c] = "bannered"]
    /\ UNCHANGED <<registry, caller, wire, buf, deadline, entry, snip, err, got, ret>>

\* conn.SetReadDeadline(time.Time{}), on either branch: log a failure and go on
ClearDeadline(c, from, to) ==
    /\ pc[c] = from
    /\ calls' = [calls EXCEPT ![c] = Append(@, DeadlineCall(NoDeadline))]
    /\ \E ok \in BOOLEAN :
          /\ deadline' = SetReadDeadline(c, NoDeadline, ok)
          /\ log' = [log EXCEPT ![c] =
                        IF ok THEN @ ELSE Append(@, <<"Error", "failed to reset read deadline", ErrClear>>)]
    /\ pc' = [pc EXCEPT ![c] = to]
    /\ UNCHANGED <<registry, caller, wire, buf, entry, snip, err, got, ret>>

\* the timeout branch going to the fallback without clearing the deadline
ClearDeadlineTimeoutSkipped(c) ==
    /\ pc[c] = "bannered"
    /\ pc' = [pc EXCEPT ![c] = "fallback"]
    /\ UNCHANGED <<registry, caller, wire, buf, deadline, entry, snip, err,
                   calls, log, got, ret>>

\* the timeout branch, after the banner
ClearDeadlineTimeout(c) == ClearDeadline(c, "bannered", "fallback")

\* the fallback called with a context of its own and empty metadata
FallbackCallDetached(c) == Call("HandleTCP", "background", "conn", NoMd, 0, "-", <<>>)

\* the timeout branch ends: return tcp.HandleTCP(ctx, conn, md, log, h)
FallbackCall(c) == Call("HandleTCP", ctx[c], "conn", md[c], 0, "-", <<>>)

DispatchTimeout(c) ==
    /\ pc[c] = "fallback"
    /\ calls' = [calls EXCEPT ![c] = Append(@, FallbackCall(c))]
    /\ pc' = [pc EXCEPT ![c] = "handler"]
    /\ UNCHANGED <<registry, caller, wire, buf, deadline, entry, snip, err, log, got, ret>>

\* the classifier going on only when Peek returned no error at all
ClearDeadlineUnlessError(c) ==
    /\ err[c] = Nil
    /\ ClearDeadline(c, "peeked", "classify")

\* the other branch: Peek returned no timeout
ClearDeadlinePeeked(c) ==
    /\ ~IsTimeout(err[c])
    /\ ClearDeadline(c, "peeked", "classify")

\* the RDP check comparing only the first three bytes
ChooseHandlerPrefix(s) ==
    IF ToUpper(s) \in httpMap THEN "HandleHTTP"
    ELSE IF Take(s, 3) = Take(rdpHeader, 3) THEN "HandleRDP"
    ELSE "HandleTCP"

\* the signature checks, HTTP first, then RDP, else the raw TCP handler
ChooseHandler(s) ==
    IF ToUpper(s) \in httpMap THEN "HandleHTTP"
    ELSE IF s = rdpHeader THEN "HandleRDP"
    ELSE "HandleTCP"

\* the handler given conn, not the wrapper
ClassifiedCallOnConn(c) == Call(ChooseHandler(snip[c]), ctx[c], "conn", md[c], 0, "-", <<>>)

\* return tcp.HandleX(ctx, bufConn, md, log, h)
ClassifiedCall(c) == Call(ChooseHandler(snip[c]), ctx[c], "bufConn", md[c], 0, "-", <<>>)

\* a signature branch that does not return: the matched handler is called and
\* then the fallback as well
ClassifyFallThrough(c) ==
    /\ pc[c] = "classify"
    /\ log' = [log EXCEPT ![c] =
                  IF err[c] # Nil THEN Append(@, <<"Debug", "failed to peek connection", err[c]>>) ELSE @]
    /\ calls' = [calls EXCEPT ![c] =
                    IF ClassifiedCall(c).fn = "HandleTCP"
                    THEN Append(@, ClassifiedCall(c))
                    ELSE Append(Append(@, ClassifiedCall(c)),
                                Call("HandleTCP", ctx[c], "bufConn", md[c], 0, "-", <<>>))]
    /\ pc' = [pc EXCEPT ![c] = "handler"]
    /\ UNCHANGED <<registry, caller, wire, buf, deadline, entry, snip, err, got, ret>>

\* log a peek error at debug level, then classify and dispatch
Classify(c) ==
    /\ pc[c] = "classify"
    /\ log' = [log EXCEPT ![c] =
                  IF err[c] # Nil THEN Append(@, <<"Debug", "failed to peek connection", err[c]>>) ELSE @]
    /\ calls' = [calls EXCEPT ![c] = Append(@, ClassifiedCall(c))]
    /\ pc' = [pc EXCEPT ![c] = "handler"]
    /\ UNCHANGED <<registry, caller, wire, buf, deadline, entry, snip, err, got, ret>>

----------------------------------------------------------------------------
(* The dispatched handler *)

\* the call that handed the flow to a handler (the last call made)
Dispatched(c) == calls[c][Len(calls[c])]

\* what a read of the handler's connection can return now and later, without
\* the client sending more: the wrapper's bytes first, then the wire
Readable(c) ==
    IF Dispatched(c).conn = "bufConn" THEN buf[c] \o raw[c] ELSE raw[c]

\* the handler reads its connection: a wrapper returns what it holds before
\* it reads the wire
HandlerRead(c) ==
    /\ kind[c] = "stream"
    /\ pc[c] = "handler"
    /\ Readable(c) # <<>>
    /\ IF Dispatched(c).conn = "bufConn" /\ buf[c] # <<>>
       THEN /\ got' = [got EXCEPT ![c] = @ \o buf[c]]
            /\ buf' = [buf EXCEPT ![c] = <<>>]
            /\ raw' = raw
       ELSE /\ got' = [got EXCEPT ![c] = @ \o raw[c]]
            /\ raw' = [raw EXCEPT ![c] = <<>>]
            /\ buf' = buf
    /\ UNCHANGED <<registry, caller, stream, nsent, peer, deadline, entry, pc,
                   snip, err, calls, log, ret>>

\* nothing returned yet
NoReturn == [handler |-> "-", result |-> "-", value |-> "-"]

\* the errors logged so far, in order
RECURSIVE ErrorsOf(_)
ErrorsOf(l) ==
    IF l = <<>> THEN <<>>
    ELSE (IF Head(l)[1] = "Error" THEN <<Head(l)[3]>> ELSE <<>>) \o ErrorsOf(Tail(l))

\* the first error logged returned in place of the handler's result
ReturnFirstError(c, r) ==
    IF ErrorsOf(log[c]) # <<>> THEN Head(ErrorsOf(log[c])) ELSE r

\* the handler returns r, and the registry entry returns what it returned:
\* every dispatch is "return tcp.HandleX(...)"
ReturnValue(c, r) == r

HandlerReturn(c) ==
    /\ pc[c] = "handler"
    /\ \E r \in HandlerResults :
          ret' = [ret EXCEPT ![c] = [handler |-> Dispatched(c).fn, result |-> r,
                                     value |-> ReturnValue(c, r)]]
    /\ pc' = [pc EXCEPT ![c] = "done"]
    /\ UNCHANGED <<registry, caller, wire, buf, deadline, entry, snip, err,
                   calls, log, got>>

----------------------------------------------------------------------------
(* Specifications *)

Only(c0, v, dflt) == [c \in Conns |-> IF c = c0 THEN v ELSE dflt]
All(v) == [c \in Conns |-> v]

\* the registries built, one flow accepted by the orchestrator
Init ==
    /\ protocolHandlers = MapTCPProtocolHandlers
    /\ udpHandlers = MapUDPProtocolHandlers
    /\ \E k \in {"stream", "datagram"} :
          /\ kind = Only(1, k, "off")
          /\ \E s \in (IF k = "stream" THEN Streams ELSE Payloads) :
                stream = Only(1, s, <<>>)
    /\ \E x \in Callers :
          /\ ctx = Only(1, x.ctx, "-")
          /\ md = Only(1, x.md, NoMd)
    /\ nsent = All(0)
    /\ peer = All("open")
    /\ raw = All(<<>>)
    /\ buf = All(<<>>)
    /\ deadline = All("none")
    /\ entry = All("-")
    /\ pc = [c \in Conns |-> IF kind[c] = "off" THEN "off" ELSE "accepted"]
    /\ snip = All(<<>>)
    /\ err = All(Nil)
    /\ calls = All(<<>>)
    /\ log = All(<<>>)
    /\ got = All(<<>>)
    /\ ret = All(NoReturn)

Next ==
    \E c \in Conns :
        \/ ClientSend(c)
        \/ ClientClose(c)
        \/ \E key \in DOMAIN protocolHandlers : InvokeNamed(c, key)
        \/ \E key \in DOMAIN udpHandlers : InvokeDatagram(c, key)
        \/ ArmDeadline(c)
        \/ PeekRead(c)
        \/ PeekFail(c)
        \/ PeekTimeout(c)
        \/ SendBanner(c)
        \/ ClearDeadlineTimeout(c)
        \/ DispatchTimeout(c)
        \/ ClearDeadlinePeeked(c)
        \/ Classify(c)
        \/ HandlerRead(c)
        \/ HandlerReturn(c)

Spec == Init /\ [][Next]_vars

\* a step of the classifier on flow c after its entry
ClassifierStep(c) ==
    \/ PeekRead(c)
    \/ PeekFail(c)
    \/ PeekTimeout(c)
    \/ SendBanner(c)
    \/ ClearDeadlineTimeout(c)
    \/ DispatchTimeout(c)
    \/ ClearDeadlinePeeked(c)
    \/ Classify(c)

\* the task that owns a flow is scheduled, and an armed deadline passes; the
\* client owes nothing: it may stay silent and keep the connection open
Fairness == \A c \in Conns : WF_vars(ClassifierStep(c))

\* one client stream for each outcome of the signature checks
LiveStreams ==
    {s \in Streams : Take(s, 4) \in {<<71, 69, 84, 32>>, <<3, 0, 0, 43>>, <<88, 89, 90, 10>>}}

LiveInit == Init /\ (kind[1] = "stream" => stream[1] \in LiveStreams)

LiveSpec == LiveInit /\ [][Next]_vars /\ Fairness

\* the classifier's connection may be peeked again once Peek has returned
PeekNext == Next \/ \E c \in Conns : PeekAgain(c)

PeekSpec == Init /\ [][PeekNext]_vars

\* one task per accepted connection, all on the same registry: every flow is a
\* stream handed to the classifier, each with its own caller, and the tasks'
\* steps interleave freely up to the dispatch
ConcStreams(c) ==
    IF c = 1 THEN {<<71, 69, 84, 32>>, <<88, 89, 90, 10>>} ELSE {<<3, 0, 0, 43>>}

ConcCaller(c) ==
    IF c = 1 THEN [ctx |-> "ctxA", md |-> [TargetPort |-> 21, ID |-> "flowA"]]
    ELSE [ctx |-> "ctxB", md |-> [TargetPort |-> 80, ID |-> "flowB"]]

ConcInit ==
    /\ protocolHandlers = MapTCPProtocolHandlers
    /\ udpHandlers = MapUDPProtocolHandlers
    /\ kind = All("stream")
    /\ stream \in {f \in [Conns -> Heads] : \A c \in Conns : f[c] \in ConcStreams(c)}
    /\ ctx = [c \in Conns |-> ConcCaller(c).ctx]
    /\ md = [c \in Conns |-> ConcCaller(c).md]
    /\ nsent = All(0)
    /\ peer = All("open")
    /\ raw = All(<<>>)
    /\ buf = All(<<>>)
    /\ deadline = All("none")
    /\ entry = All("-")
    /\ pc = All("accepted")
    /\ snip = All(<<>>)
    /\ err = All(Nil)
    /\ calls = All(<<>>)
    /\ log = All(<<>>)
    /\ got = All(<<>>)
    /\ ret = All(NoReturn)

ConcNext ==
    \E c \in Conns :
        \/ ClientSend(c)
        \/ ClientClose(c)
        \/ ArmDeadline(c)
        \/ ClassifierStep(c)

ConcSpec == ConcInit /\ [][ConcNext]_vars

----------------------------------------------------------------------------
(* Vocabulary of the properties *)

\* where in the calls of flow c the function fn was called
Indices(c, fn) == {i \in 1..Len(calls[c]) : calls[c][i].fn = fn}
Count(c, fn) == Cardinality(Indices(c, fn))

\* the classifier ran on flow c and has handed it to a handler
ClassifierDispatched(c) == entry[c] = "tcp" /\ pc[c] \in {"handler", "done"}

\* the classifier runs on flow c and Peek has returned
ClassifierPeeked(c) ==
    entry[c] = "tcp" /\ pc[c] \in {"peeked", "bannered", "fallback", "classify", "handler", "done"}

\* everything the dispatched handler has read or can still read
HandlerSees(c) == got[c] \o Readable(c)

\* s and sig are the same four bytes up to the case of ASCII letters
SameIgnoringCase(s, sig) ==
    /\ Len(s) = Len(sig)
    /\ \A i \in 1..Len(s) :
          \/ s[i] = sig[i]
          \/ s[i] \in 97..122 /\ s[i] - 32 = sig[i]
          \/ s[i] \in 65..90 /\ s[i] + 32 = sig[i]

\* "GET ", "POST", "HEAD", "OPTI", "CONN"
HTTPSignatures ==
    { <<71, 69, 84, 32>>, <<80, 79, 83, 84>>, <<72, 69, 65, 68>>,
      <<79, 80, 84, 73>>, <<67, 79, 78, 78>> }

MatchesHTTP(s) == \E sig \in HTTPSignatures : SameIgnoringCase(s, sig)
MatchesRDP(s) == s = <<3, 0, 0, 43>>

----------------------------------------------------------------------------
(* C1: when the probe times out with no byte received, the banner sender is
   called exactly once, with the metadata's target port, before the raw TCP
   handler is called, and the HTTP and RDP handlers are never called. *)
C1_SilentClient(c) == ClassifierPeeked(c) /\ IsTimeout(err[c]) /\ snip[c] = <<>>

C1_BannerThenFallback ==
    \A c \in Conns :
        C1_SilentClient(c) =>
            /\ Count(c, "SendBanner") <= 1
            /\ Count(c, "HandleHTTP") = 0
            /\ Count(c, "HandleRDP") = 0
            /\ \A i \in Indices(c, "SendBanner") : calls[c][i].port = md[c].TargetPort
            /\ \A j \in Indices(c, "HandleTCP") :
                  \E i \in Indices(c, "SendBanner") : i < j
            /\ pc[c] \in {"handler", "done"} =>
                  Count(c, "SendBanner") = 1 /\ Count(c, "HandleTCP") = 1

C1_Witness ==
    /\ C1_SilentClient(1)
    /\ pc[1] = "done"
    /\ nsent[1] = 0
    /\ md[1].TargetPort = 80
    /\ Count(1, "SendBanner") = 1

(* C2: on the timeout branch the probe has consumed nothing, so the handler,
   given the original connection, can read every byte the client sent, in
   order. *)
C2_TimeoutLosesNothing ==
    \A c \in Conns :
        ClassifierDispatched(c) /\ IsTimeout(err[c]) =>
            /\ Dispatched(c).conn = "conn"
            /\ HandlerSees(c) = Sent(c)

(* C3: a 4-byte snippet got without a timeout that is an HTTP method up to
   letter case goes to the HTTP handler on the wrapped connection, which reads
   the snippet in its original case and then the rest of the stream. *)
C3_HTTPDispatch ==
    \A c \in Conns :
        ClassifierDispatched(c) /\ ~IsTimeout(err[c]) /\ Len(snip[c]) = 4
                                /\ MatchesHTTP(snip[c]) =>
            /\ Dispatched(c).fn = "HandleHTTP"
            /\ Dispatched(c).conn = "bufConn"
            /\ snip[c] = Take(stream[c], 4)
            /\ HandlerSees(c) = Sent(c)

C3_Witness ==
    /\ ClassifierDispatched(1)
    /\ pc[1] = "done"
    /\ snip[1] = <<80, 111, 115, 116>>
    /\ Dispatched(1).fn = "HandleHTTP"
    /\ got[1] = <<80, 111, 115, 116, 47>>

(* C4: a snippet got without a timeout that is exactly 03 00 00 2B goes to the
   RDP handler on the wrapped connection, which reads those four bytes and
   then the rest of the stream; no other snippet reaches the RDP handler
   through the classifier. *)
C4_RDPDispatch ==
    \A c \in Conns :
        ClassifierDispatched(c) =>
            /\ ~IsTimeout(err[c]) /\ MatchesRDP(snip[c]) =>
                  /\ Dispatched(c).fn = "HandleRDP"
                  /\ Dispatched(c).conn = "bufConn"
                  /\ Take(stream[c], 4) = <<3, 0, 0, 43>>
                  /\ HandlerSees(c) = Sent(c)
            /\ Count(c, "HandleRDP") > 0 =>
                  ~IsTimeout(err[c]) /\ MatchesRDP(snip[c])

C4_Witness ==
    /\ ClassifierDispatched(1)
    /\ pc[1] = "done"
    /\ Dispatched(1).fn = "HandleRDP"
    /\ got[1] = <<3, 0, 0, 43, 47>>

(* C5: a 4-byte snippet that arrives before the deadline and matches neither
   signature goes to the raw TCP handler on the wrapped connection, no banner
   is sent, and the handler reads the four bytes and then the rest. *)
C5_FallbackDispatch ==
    \A c \in Conns :
        ClassifierDispatched(c) /\ err[c] = Nil /\ Len(snip[c]) = 4
                                /\ ~MatchesHTTP(snip[c]) /\ ~MatchesRDP(snip[c]) =>
            /\ Dispatched(c).fn = "HandleTCP"
            /\ Dispatched(c).conn = "bufConn"
            /\ Count(c, "SendBanner") = 0
            /\ snip[c] = Take(stream[c], 4)
            /\ HandlerSees(c) = Sent(c)

C5_Witness ==
    /\ ClassifierDispatched(1)
    /\ pc[1] = "done"
    /\ err[1] = Nil
    /\ snip[1] = <<88, 89, 90, 10>>
    /\ Dispatched(1).fn = "HandleTCP"
    /\ got[1] = <<88, 89, 90, 10, 47>>

(* C6: after a probe error that is no timeout the classifier goes on: it clears
   the deadline, classifies the snippet it got and calls the chosen handler
   with the wrapped connection, which reads the partial snippet before any
   later data. *)
C6_ProbeFailed(c) == entry[c] = "tcp" /\ err[c] \in {ErrEOF, ErrReset}

C6_ErrorContinues ==
    \A c \in Conns :
        C6_ProbeFailed(c) =>
            /\ pc[c] = "peeked" => ENABLED ClearDeadlinePeeked(c)
            /\ pc[c] = "classify" => ENABLED Classify(c)
            /\ pc[c] # "done" => ret[c] = NoReturn
            /\ pc[c] \in {"handler", "done"} =>
                  /\ Len(snip[c]) < 4
                  /\ Dispatched(c).fn \in Handlers
                  /\ Dispatched(c).conn = "bufConn"
                  /\ \E i \in Indices(c, "SetReadDeadline") :
                        calls[c][i].t = "zero" /\ i < Len(calls[c])
                  /\ IsPrefix(snip[c], HandlerSees(c))
                  /\ HandlerSees(c) = Sent(c)

C6_Witness ==
    /\ C6_ProbeFailed(1)
    /\ pc[1] = "done"
    /\ err[1] = ErrEOF
    /\ snip[1] = <<71, 69>>
    /\ got[1] = <<71, 69>>

(* C7: the classifier returns exactly what the handler it dispatched to
   returned; an error of setting or clearing the deadline, of the probe or of
   the banner is never returned and never replaces the handler's result. *)
C7_ReturnsHandlerResult ==
    \A c \in Conns :
        /\ pc[c] # "done" => ret[c] = NoReturn
        /\ entry[c] = "tcp" /\ pc[c] = "done" =>
              /\ ret[c].handler = Dispatched(c).fn
              /\ ret[c].handler \in Handlers
              /\ ret[c].value = ret[c].result
              /\ ret[c].value \notin InternalErrors

C7_Witness ==
    /\ entry[1] = "tcp"
    /\ pc[1] = "done"
    /\ ErrorsOf(log[1]) = <<ErrBanner, ErrClear>>
    /\ err[1] = ErrTimeout
    /\ ret[1].value = Nil

(* C8: on the timeout branch a failed banner send is not fatal: with the banner
   sent or failed, the classifier still tries to clear the deadline and then
   calls the raw TCP handler exactly once, on the original connection. *)
C8_BannerNonFatal ==
    \A c \in Conns :
        entry[c] = "tcp" /\ IsTimeout(err[c]) =>
            /\ pc[c] = "bannered" => ENABLED ClearDeadlineTimeout(c)
            /\ pc[c] = "fallback" => ENABLED DispatchTimeout(c)
            /\ pc[c] \in {"handler", "done"} =>
                  /\ [i \in 1..Len(calls[c]) |-> calls[c][i].fn]
                        = <<"SetReadDeadline", "SendBanner", "SetReadDeadline", "HandleTCP">>
                  /\ calls[c][3].t = "zero"
                  /\ calls[c][4].conn = "conn"

C8_Witness ==
    /\ entry[1] = "tcp"
    /\ IsTimeout(err[1])
    /\ pc[1] = "done"
    /\ ErrBanner \in {ErrorsOf(log[1])[i] : i \in 1..Len(ErrorsOf(log[1]))}
    /\ Dispatched(1).fn = "HandleTCP"

(* C9: every invocation of the classifier in which setting the read deadline
   succeeded dispatches a handler in the end, whatever the client does; one
   in which it failed does so once the client has sent four bytes or has
   closed the connection. *)
C9_SetFailed(c) ==
    ErrSet \in {ErrorsOf(log[c])[i] : i \in 1..Len(ErrorsOf(log[c]))}

C9_DispatchesWhenArmed ==
    \A c \in Conns :
        /\ (entry[c] = "tcp" /\ ~C9_SetFailed(c)) ~> (pc[c] \in {"handler", "done"})
        /\ (entry[c] = "tcp" /\ (nsent[c] >= 4 \/ peer[c] # "open"))
              ~> (pc[c] \in {"handler", "done"})

\* C9 as first stated: dispatch also when setting the deadline failed
C9_AlwaysDispatches ==
    \A c \in Conns : (entry[c] = "tcp") ~> (pc[c] \in {"handler", "done"})

C9_Witness ==
    /\ entry[1] = "tcp"
    /\ pc[1] = "handler"
    /\ ~C9_SetFailed(1)
    /\ nsent[1] = 0
    /\ peer[1] = "open"

(* C10: the stream registry has exactly its 13 keys and the datagram registry
   exactly "udp", and no step, the classifier's included, adds, removes or
   rebinds an entry. *)
C10_Keys ==
    /\ DOMAIN protocolHandlers =
          {"smtp", "rdp", "smb", "ftp", "sip", "rfb", "telnet", "mqtt",
           "bittorrent", "memcache", "jabber", "adb", "tcp"}
    /\ Cardinality(DOMAIN protocolHandlers) = 13
    /\ DOMAIN udpHandlers = {"udp"}

C10_RegistryFixed ==
    /\ []C10_Keys
    /\ [][protocolHandlers' = protocolHandlers /\ udpHandlers' = udpHandlers]_vars

C10_Witness ==
    /\ C10_Keys
    /\ entry[1] = "tcp"
    /\ pc[1] = "done"
    /\ Dispatched(1).fn = "HandleHTTP"

(* C11: a second peek of the same width, with no consuming read in between,
   returns the same bytes as the first, and after both peeks the reader of the
   connection still reads every byte the client sent, in order. *)
C11_Peeks(c) == Cardinality(Indices(c, "Peek"))

C11_SameBytes ==
    \A c \in Conns :
        (pc[c] = "peeked" /\ pc'[c] = "peeked" /\ Len(calls'[c]) > Len(calls[c]))
            => snip'[c] = snip[c]

C11_ReaderUnchanged ==
    \A c \in Conns :
        /\ C11_Peeks(c) > 0 /\ pc[c] = "peeked" => buf[c] \o raw[c] = Sent(c)
        /\ C11_Peeks(c) > 0 /\ pc[c] \in {"handler", "done"}
                           /\ Dispatched(c).conn = "bufConn" =>
              HandlerSees(c) = Sent(c)

C12_Flow(c) ==
    <<kind[c], stream[c], nsent[c], peer[c], raw[c], buf[c], deadline[c], ctx[c],
      md[c], entry[c], pc[c], snip[c], err[c], calls[c], log[c], got[c], ret[c]>>

C12_OwnDeadlineOnly ==
    /\ \E c \in Conns : \A d \in Conns \ {c} : C12_Flow(d)' = C12_Flow(d)
    /\ \A c \in Conns :
          deadline'[c] # deadline[c] =>
              /\ Len(calls'[c]) = Len(calls[c]) + 1
              /\ calls'[c][Len(calls'[c])].fn = "SetReadDeadline"

C12_Expected(c) ==
    IF IsTimeout(err[c]) THEN "HandleTCP"
    ELSE IF Len(snip[c]) = 4 /\ MatchesHTTP(Take(stream[c], 4)) THEN "HandleHTTP"
    ELSE IF Len(snip[c]) = 4 /\ MatchesRDP(Take(stream[c], 4)) THEN "HandleRDP"
    ELSE "HandleTCP"

C12_OwnOutcome ==
    \A c \in Conns :
        /\ ClassifierPeeked(c) =>
              /\ snip[c] = Take(stream[c], Len(snip[c]))
              /\ Len(snip[c]) <= nsent[c]
        /\ ClassifierDispatched(c) =>
              /\ Dispatched(c).fn = C12_Expected(c)
              /\ Dispatched(c).ctx = ctx[c]
              /\ Dispatched(c).md = md[c]
        /\ deadline[c] = "armed" => entry[c] = "tcp"

C12_Independent == []C12_OwnOutcome /\ [][C12_OwnDeadlineOnly]_vars

C12_Witness ==
    /\ pc[1] = "peek"
    /\ deadline[1] = "armed"
    /\ pc[2] = "handler"
    /\ deadline[2] = "none"
    /\ Dispatched(2).fn = "HandleRDP"
    /\ stream[1] = <<71, 69, 84, 32>>
    /\ nsent[1] = 2

(* C13: every registry handler and every path of the classifier hands the
   caller's context and metadata on as received; the classifier uses the
   target port alone, for the banner, and changes no field of the metadata. *)
C13_HandlerCalls(c) ==
    {i \in 1..Len(calls[c]) : calls[c][i].fn \notin {"SetReadDeadline", "SendBanner", "Peek"}}

C13_PassedOn ==
    \A c \in Conns :
        /\ \A i \in C13_HandlerCalls(c) :
              calls[c][i].ctx = ctx[c] /\ calls[c][i].md = md[c]
        /\ \A i \in Indices(c, "SendBanner") :
              calls[c][i].md = md[c] /\ calls[c][i].port = md[c].TargetPort
        /\ pc[c] \in {"handler", "done"} => C13_HandlerCalls(c) # {}

C13_ContextAndMetadataUnchanged ==
    []C13_PassedOn /\ [][ctx' = ctx /\ md' = md]_vars

C13_Witness ==
    /\ entry[1] = "tcp"
    /\ IsTimeout(err[1])
    /\ pc[1] = "done"
    /\ ctx[1] = "ctxB"
    /\ Dispatched(1).ctx = "ctxB"
    /\ Dispatched(1).md = [TargetPort |-> 80, ID |-> "flowB"]

(* C14: on every path of the classifier the clearing of the read deadline is
   attempted before the handler is called, so that with the clearing
   successful no handler runs on an armed deadline; the timeout path goes
   banner, clearing, fallback, the other paths clearing, classification,
   dispatch. *)
C14_Fns(c) == [i \in 1..Len(calls[c]) |-> calls[c][i].fn]

C14_ClearFailed(c) ==
    ErrClear \in {ErrorsOf(log[c])[i] : i \in 1..Len(ErrorsOf(log[c]))}

C14_ClearedBeforeHandler ==
    \A c \in Conns :
        entry[c] = "tcp" =>
            /\ pc[c] = "fallback" =>
                  /\ C14_Fns(c) = <<"SetReadDeadline", "SendBanner", "SetReadDeadline">>
                  /\ calls[c][3].t = "zero"
            /\ pc[c] = "classify" =>
                  /\ C14_Fns(c) = <<"SetReadDeadline", "SetReadDeadline">>
                  /\ calls[c][2].t = "zero"
                  /\ ~IsTimeout(err[c])
            /\ pc[c] \in {"handler", "done"} =>
                  /\ IF IsTimeout(err[c])
                     THEN /\ C14_Fns(c) = <<"SetReadDeadline", "SendBanner",
                                            "SetReadDeadline", "HandleTCP">>
                          /\ calls[c][3].t = "zero"
                     ELSE /\ Len(calls[c]) = 3
                          /\ SubSeq(C14_Fns(c), 1, 2) = <<"SetReadDeadline", "SetReadDeadline">>
                          /\ calls[c][2].t = "zero"
                          /\ C14_Fns(c)[3] \in Handlers
                  /\ calls[c][1].t = "now+500ms"
                  /\ ~C14_ClearFailed(c) => deadline[c] = "none"

C14_Witness ==
    /\ entry[1] = "tcp"
    /\ pc[1] = "handler"
    /\ IsTimeout(err[1])
    /\ ErrorsOf(log[1]) = <<ErrBanner>>
    /\ deadline[1] = "none"

(* C15: in every run of the classifier, whatever the outcomes of the deadline
   calls, the probe and the banner, one handler among HTTP, RDP and raw TCP is
   called, once, and it is never the classifier: no second dispatch and no
   re-entry. *)
C15_HandlerCalls(c) ==
    {i \in 1..Len(calls[c]) : calls[c][i].fn \notin {"SetReadDeadline", "SendBanner", "Peek"}}

C15_Entries(c) ==
    {i \in 1..Len(calls[c]) :
        calls[c][i].fn = "SetReadDeadline" /\ calls[c][i].t = "now+500ms"}

C15_ExactlyOneHandler ==
    \A c \in Conns :
        entry[c] = "tcp" =>
            /\ Cardinality(C15_HandlerCalls(c)) <= 1
            /\ pc[c] \in {"handler", "done"} <=> Cardinality(C15_HandlerCalls(c)) = 1
            /\ \A i \in C15_HandlerCalls(c) :
                  /\ calls[c][i].fn \in {"HandleHTTP", "HandleRDP", "HandleTCP"}
                  /\ calls[c][i].fn # protocolHandlers["tcp"]
                  /\ i = Len(calls[c])
            /\ Cardinality(C15_Entries(c)) = 1
            /\ pc[c] \in {"peeked", "bannered", "fallback", "classify"} =>
                  ENABLED ClassifierStep(c)

C15_Witness ==
    /\ entry[1] = "tcp"
    /\ pc[1] = "done"
    /\ err[1] = ErrReset
    /\ ErrorsOf(log[1]) = <<ErrSet, ErrClear>>
    /\ Cardinality(C15_HandlerCalls(1)) = 1

(* C16: the banner sender is called if and only if the probe error is a
   timeout, and never more than once; so a banner reaches the client in
   timeout runs only, and there only when the send succeeds; a probe that
   succeeds or fails otherwise, an immediate EOF with an empty snippet
   included, sends no banner. *)
C16_TimedOut(c) == err[c] = "i/o timeout"

C16_Branched(c) ==
    entry[c] = "tcp" /\ pc[c] \in {"bannered", "fallback", "classify", "handler", "done"}

C16_BannerFailed(c) ==
    ErrBanner \in {ErrorsOf(log[c])[i] : i \in 1..Len(ErrorsOf(log[c]))}

\* the banner has reached the client: the sender was called and did not fail
C16_BannerWritten(c) == Count(c, "SendBanner") > 0 /\ ~C16_BannerFailed(c)

C16_BannerIffTimeout ==
    \A c \in Conns :
        /\ Count(c, "SendBanner") <= 1
        /\ C16_Branched(c) => (Count(c, "SendBanner") = 1 <=> C16_TimedOut(c))
        /\ entry[c] = "tcp" /\ ~C16_Branched(c) => Count(c, "SendBanner") = 0
        /\ C16_BannerWritten(c) => C16_TimedOut(c)

\* C16 as first stated: written to the client exactly in the timeout runs
C16_WrittenIffTimeout ==
    \A c \in Conns :
        C16_Branched(c) => (C16_BannerWritten(c) <=> C16_TimedOut(c))

C16_Witness ==
    /\ C16_Branched(1)
    /\ pc[1] = "done"
    /\ err[1] = ErrEOF
    /\ snip[1] = <<>>
    /\ Count(1, "SendBanner") = 0

(* C17: no snippet passes both the HTTP check and the RDP check, so the handler
   chosen is the same with the two checks in the other order; and a snippet
   shorter than four bytes, the empty one included, passes neither and goes
   to the raw TCP handler. *)
C17_PassesHTTP(s) == ToUpper(s) \in httpMap
C17_PassesRDP(s) == s = rdpHeader

\* the choice with the RDP check made first
C17_RDPFirst(s) ==
    IF C17_PassesRDP(s) THEN "HandleRDP"
    ELSE IF C17_PassesHTTP(s) THEN "HandleHTTP"
    ELSE "HandleTCP"

C17_DisjointSignatures ==
    \A c \in Conns :
        /\ ClassifierPeeked(c) =>
              /\ ~(C17_PassesHTTP(snip[c]) /\ C17_PassesRDP(snip[c]))
              /\ ChooseHandler(snip[c]) = C17_RDPFirst(snip[c])
              /\ Len(snip[c]) < 4 =>
                    ~C17_PassesHTTP(snip[c]) /\ ~C17_PassesRDP(snip[c])
        /\ ClassifierDispatched(c) =>
              /\ Dispatched(c).fn \in {ChooseHandler(snip[c]), "HandleTCP"}
              /\ Len(snip[c]) < 4 => Dispatched(c).fn = "HandleTCP"
              /\ Dispatched(c).fn = "HandleHTTP" => MatchesHTTP(snip[c])
              /\ Dispatched(c).fn = "HandleRDP" => MatchesRDP(snip[c])

C17_Witness ==
    /\ ClassifierDispatched(1)
    /\ pc[1] = "done"
    /\ err[1] = ErrEOF
    /\ snip[1] = <<3, 0, 0>>
    /\ Dispatched(1).fn = "HandleTCP"

====
